---- MODULE Spec2Model ----
(***************************************************************************)
(* A model of dbc_to_ipynbs.py: the byte decoder, the notebook extractor,  *)
(* the block assembler, the notebook writer and the archive walker.        *)
(*                                                                         *)
(* Strings are sequences of tokens, each token a fixed piece of text.      *)
(* In cell text:  "a" is an ordinary character, "w" is the blank run       *)
(* "\n\n", "h" is the line "# COMMAND ----------"; the separator           *)
(* "\n\n# COMMAND ----------\n\n" is therefore <<"w", "h", "w">>.          *)
(* In names:  "/" is the path separator, ".." the parent reference,        *)
(* ".ipynb", ".py", ".mf" are extensions, "_1", "_2", ... the collision    *)
(* suffixes, every other token a run of ordinary name characters.          *)
(* No token is a concatenation of other tokens, so two token sequences     *)
(* are equal exactly when the strings they stand for are equal.            *)
(***************************************************************************)
EXTENDS Integers, Sequences, FiniteSets, TLC

VARIABLES
    pc,       \* position of the running call
    input,    \* the argument of the call under way (entry, bytes, record, target)
    result,   \* what the last step produced
    fs,       \* files on disk: location -> notebook content
    dirs,     \* directories on disk (locations)
    written,  \* the list `written` of dbc_to_ipynbs / the paths returned so far
    hist,     \* the disk and `written` as they were before the last step
    count     \* the calls / loop iterations made so far

vars == <<pc, input, result, fs, dirs, written, hist, count>>

-----------------------------------------------------------------------------
(* Bounds of the model *)

MaxEntries == 2   \* archive entries walked in one run
MaxCmds == 2      \* entries of a record's commands / cells list
MaxStrLen == 1    \* tokens in a command's source string
MaxWrites == 3    \* _write_ipynb calls in one sequence

-----------------------------------------------------------------------------
(* Python values *)

PyNone == [t |-> "none"]
PyStr(s) == [t |-> "str", s |-> s]
PyInt(n) == [t |-> "int", n |-> n]
PyBool(b) == [t |-> "bool", b |-> b]
PyList(xs) == [t |-> "list", xs |-> xs]
PyDict(d) == [t |-> "dict", d |-> d]

\* the outcome of an evaluation that may raise: Raise, or Ok of its value
Raise == [t |-> "raise"]
Ok(v) == [t |-> "ok", v |-> v]
Failed(r) == r.t = "raise"

\* bool(v)
Truthy(v) ==
    CASE v.t = "none" -> FALSE
      [] v.t = "str" -> v.s # <<>>
      [] v.t = "int" -> v.n # 0
      [] v.t = "bool" -> v.b
      [] v.t = "list" -> v.xs # <<>>
      [] v.t = "dict" -> DOMAIN v.d # {}
      [] OTHER -> TRUE

\* d.get(k, dflt) on a dict value
Get(v, k, dflt) == IF k \in DOMAIN v.d THEN v.d[k] ELSE dflt

-----------------------------------------------------------------------------
(* str methods *)

Sep == <<"w", "h", "w">>

IsSpace(tok) == tok = "w"

RECURSIVE LStrip(_)
LStrip(s) == IF s # <<>> /\ IsSpace(Head(s)) THEN LStrip(Tail(s)) ELSE s

RECURSIVE RStrip(_)
RStrip(s) ==
    IF s # <<>> /\ IsSpace(s[Len(s)]) THEN RStrip(SubSeq(s, 1, Len(s) - 1)) ELSE s

\* s.strip()
Strip(s) == RStrip(LStrip(s))

\* "".join(xs) for a list of strings, sep.join(xs) in general
RECURSIVE Join(_, _)
Join(sep, xs) ==
    IF xs = <<>> THEN <<>>
    ELSE IF Len(xs) = 1 THEN xs[1]
    ELSE xs[1] \o sep \o Join(sep, Tail(xs))

StartsWith(s, p) == Len(s) >= Len(p) /\ SubSeq(s, 1, Len(p)) = p

EndsWith(s, p) == Len(s) >= Len(p) /\ SubSeq(s, Len(s) - Len(p) + 1, Len(s)) = p

\* s.split(sep): leftmost, non-overlapping occurrences
RECURSIVE SplitFrom(_, _, _)
SplitFrom(s, sep, acc) ==
    IF s = <<>> THEN <<acc>>
    ELSE IF StartsWith(s, sep)
         THEN <<acc>> \o SplitFrom(SubSeq(s, Len(sep) + 1, Len(s)), sep, <<>>)
         ELSE SplitFrom(Tail(s), sep, Append(acc, Head(s)))

Split(s, sep) == SplitFrom(s, sep, <<>>)

LowerTok(tok) ==
    CASE tok = "MANIFEST" -> "manifest"
      [] tok = "Manifest" -> "manifest"
      [] tok = ".MF" -> ".mf"
      [] tok = "PY" -> "py"
      [] tok = "R" -> "r"
      [] tok = "SQL" -> "sql"
      [] OTHER -> tok

\* s.lower()
Lower(s) == [i \in DOMAIN s |-> LowerTok(s[i])]

\* `sub in s` for a one-token sub
Contains(s, tok) == \E i \in DOMAIN s : s[i] = tok

-----------------------------------------------------------------------------
(* Byte Decoder *)

(* An entry's bytes are described by what the library calls of the decoder  *)
(* make of them:  text is b.decode("utf-8", errors="replace"),  utf8 is     *)
(* json.loads(b.decode("utf-8")),  b64 tells whether base64.b64decode(b)    *)
(* returns, and b64utf8, b64gz, b64zl, gz, zl are the results of the later  *)
(* attempts; each result is a Python value or Raise.                        *)

TryParseJsonFromBytes(b) ==
    IF ~Failed(b.utf8) THEN b.utf8
    ELSE IF b.b64 /\ ~Failed(b.b64utf8) THEN b.b64utf8
    ELSE IF b.b64 /\ ~Failed(b.b64gz) THEN b.b64gz
    ELSE IF b.b64 /\ ~Failed(b.b64zl) THEN b.b64zl
    ELSE IF ~Failed(b.gz) THEN b.gz
    ELSE IF ~Failed(b.zl) THEN b.zl
    ELSE PyNone

-----------------------------------------------------------------------------
(* Notebook Extractor *)

IsDict(v) == v.t = "dict"

\* the records _iter_nb_objs yields, in order
IterNbObjs(nbjson) ==
    IF nbjson.t = "dict"
    THEN IF "commands" \in DOMAIN nbjson.d \/ "cells" \in DOMAIN nbjson.d
         THEN <<nbjson>>
         ELSE LET nbs == Get(nbjson, "notebooks", PyNone)
              IN  IF nbs.t = "list" THEN SelectSeq(nbs.xs, IsDict) ELSE <<nbjson>>
    ELSE IF nbjson.t = "list" THEN SelectSeq(nbjson.xs, IsDict)
    ELSE <<>>

-----------------------------------------------------------------------------
(* Block Assembler *)

Python == <<"py", "thon">>

\* _normalize_lang: Ok of the normalized string, or Raise when lang has no lower()
NormalizeLang(lang) ==
    LET l0 == IF Truthy(lang) THEN lang ELSE PyStr(Python)
    IN  IF l0.t # "str" THEN Raise
        ELSE LET l == Lower(l0.s)
             IN  IF Contains(l, "py") THEN Ok(Python)
                 ELSE IF Contains(l, "sql") THEN Ok(<<"sql">>)
                 ELSE IF Contains(l, "scala") THEN Ok(<<"scala">>)
                 ELSE IF l \in {<<"r">>, <<"r", "script">>} THEN Ok(<<"r">>)
                 ELSE Ok(l)

\* iter(v): Ok of the sequence of the elements, or Raise when v is not iterable
Iter(v) ==
    CASE v.t = "list" -> Ok(v.xs)
      [] v.t = "str" -> Ok([i \in DOMAIN v.s |-> PyStr(<<v.s[i]>>)])
      [] v.t = "dict" -> Ok([i \in 1..Cardinality(DOMAIN v.d) |-> PyStr(<<"key">>)])
      [] OTHER -> Raise

\* the sort key of line 96: c.get("position", 0)
PositionKey(c) == Get(c, "position", PyInt(0))

\* whether Python orders the key k against other keys (int and bool do)
Orderable(k) == k.t \in {"int", "bool"}

KeyNum(k) == IF k.t = "int" THEN k.n ELSE IF k.b THEN 1 ELSE 0

\* InsertByKey gone wrong: c is put before the elements of equal key, so that
\* equal positions come out in reverse list order
RECURSIVE InsertByKeyUnstable(_, _)
InsertByKeyUnstable(sorted, c) ==
    IF sorted = <<>> THEN <<c>>
    ELSE IF KeyNum(PositionKey(c)) <= KeyNum(PositionKey(Head(sorted)))
         THEN <<c>> \o sorted
         ELSE <<Head(sorted)>> \o InsertByKeyUnstable(Tail(sorted), c)

\* insert c behind every element whose key is not greater (a stable insertion)
RECURSIVE InsertByKey(_, _)
InsertByKey(sorted, c) ==
    IF sorted = <<>> THEN <<c>>
    ELSE IF KeyNum(PositionKey(c)) < KeyNum(PositionKey(Head(sorted)))
         THEN <<c>> \o sorted
         ELSE <<Head(sorted)>> \o InsertByKey(Tail(sorted), c)

RECURSIVE SortFrom(_, _)
SortFrom(xs, acc) ==
    IF xs = <<>> THEN acc ELSE SortFrom(Tail(xs), InsertByKey(acc, Head(xs)))

\* sorted(xs, key=lambda c: c.get("position", 0)): Raise when an element has
\* no get(), or when keys that Python cannot order are compared
SortedByPosition(xs) ==
    IF \E i \in DOMAIN xs : xs[i].t # "dict" THEN Raise
    ELSE IF Len(xs) >= 2 /\ \E i \in DOMAIN xs : ~Orderable(PositionKey(xs[i]))
         THEN Raise
         ELSE Ok(SortFrom(xs, <<>>))

\* lines 100-103 and 110-113: Ok of the part a source value contributes
\* (<<>> when it contributes none), or Raise for a failing "".join
SourcePart(code) ==
    IF code.t = "list"
    THEN IF \E i \in DOMAIN code.xs : code.xs[i].t # "str" THEN Raise
         ELSE Ok(Strip(Join(<<>>, [i \in DOMAIN code.xs |-> code.xs[i].s])))
    ELSE IF code.t = "str" THEN Ok(Strip(code.s))
    ELSE Ok(<<>>)

\* the list `parts` built from the source values in order, or Raise
PartsOf(srcs) ==
    LET ps == [i \in DOMAIN srcs |-> SourcePart(srcs[i])]
        Kept(p) == p.v # <<>>
    IN  IF \E i \in DOMAIN ps : Failed(ps[i]) THEN Raise
        ELSE LET kept == SelectSeq(ps, Kept)
             IN  Ok([i \in DOMAIN kept |-> kept[i].v])

\* the source value of one element of `cells` (line 109)
CellSource(c) ==
    IF "command" \in DOMAIN c.d THEN c.d["command"] ELSE Get(c, "source", PyStr(<<>>))

\* json.dumps(nb, indent=2): one line break after another, never a blank line,
\* so never blank and never holding the separator
Dumps(nb) == <<"{json}">>

\* lines 96-104
CommandsText(nb) ==
    LET items == Iter(Get(nb, "commands", PyList(<<>>)))
        commands == IF Failed(items) THEN Raise ELSE SortedByPosition(items.v)
        parts == IF Failed(commands) THEN Raise
                 ELSE PartsOf([i \in DOMAIN commands.v |->
                                    Get(commands.v[i], "command", PyStr(<<>>))])
    IN  IF Failed(parts) THEN Raise ELSE Ok(Join(Sep, parts.v))

\* lines 107-114
CellsText(nb) ==
    LET items == Iter(Get(nb, "cells", PyList(<<>>)))
        parts == IF Failed(items) THEN Raise
                 ELSE IF \E i \in DOMAIN items.v : items.v[i].t # "dict" THEN Raise
                 ELSE PartsOf([i \in DOMAIN items.v |-> CellSource(items.v[i])])
    IN  IF Failed(parts) THEN Raise ELSE Ok(Join(Sep, parts.v))

\* _extract_blocks: Ok of [name, text, lang], or Raise
ExtractBlocks(nb) ==
    LET nm == Get(nb, "name", PyNone)
        name == IF Truthy(nm) THEN nm ELSE PyStr(<<"notebook">>)
        lang == NormalizeLang(Get(nb, "language", PyNone))
        text == IF "commands" \in DOMAIN nb.d THEN CommandsText(nb)
                ELSE IF "cells" \in DOMAIN nb.d THEN CellsText(nb)
                ELSE Ok(Dumps(nb))
    IN  IF Failed(lang) \/ Failed(text) THEN Raise
        ELSE Ok([name |-> name, text |-> text.v, lang |-> lang.v])

-----------------------------------------------------------------------------
(* pathlib.Path: [abs, parts], parts a sequence of components, each a string *)

IsExtTok(tok) == tok \in {".ipynb", ".py", ".mf", ".MF"}

NonEmptySeq(x) == x # <<>>

\* Path(s)
ParsePath(s) ==
    [abs |-> s # <<>> /\ Head(s) = "/",
     parts |-> SelectSeq(Split(s, <<"/">>), NonEmptySeq)]

\* base / s : an absolute s replaces base
Div(base, s) ==
    LET q == ParsePath(s)
    IN  IF q.abs THEN q ELSE [abs |-> base.abs, parts |-> base.parts \o q.parts]

\* path.name, path.suffix, path.stem
PathName(path) == path.parts[Len(path.parts)]
PathSuffix(path) ==
    LET nm == PathName(path)
    IN  IF Len(nm) > 1 /\ IsExtTok(nm[Len(nm)]) THEN <<nm[Len(nm)]>> ELSE <<>>
PathStem(path) ==
    LET nm == PathName(path)
    IN  SubSeq(nm, 1, Len(nm) - Len(PathSuffix(path)))

\* path.with_name(nm), path.parent
WithName(path, nm) ==
    [abs |-> path.abs, parts |-> SubSeq(path.parts, 1, Len(path.parts) - 1) \o <<nm>>]
Parent(path) ==
    [abs |-> path.abs, parts |-> SubSeq(path.parts, 1, Len(path.parts) - 1)]

\* The place on disk a path names: the operating system follows each ".."
\* to the parent (the root is its own parent; above a relative start the
\* ".." stay).
RECURSIVE Resolve(_, _, _)
Resolve(abs, parts, acc) ==
    IF parts = <<>> THEN acc
    ELSE IF Head(parts) = <<"..">>
         THEN IF acc # <<>> /\ acc[Len(acc)] # <<"..">>
              THEN Resolve(abs, Tail(parts), SubSeq(acc, 1, Len(acc) - 1))
              ELSE IF abs THEN Resolve(abs, Tail(parts), acc)
              ELSE Resolve(abs, Tail(parts), Append(acc, Head(parts)))
         ELSE Resolve(abs, Tail(parts), Append(acc, Head(parts)))

Loc(path) == [abs |-> path.abs, parts |-> Resolve(path.abs, path.parts, <<>>)]

\* the working directory, its ancestors and the root are there from the start
Preexisting(loc) == \A i \in DOMAIN loc.parts : loc.parts[i] = <<"..">>

\* path.exists()
Exists(path, files, ds) ==
    Loc(path) \in DOMAIN files \/ Loc(path) \in ds \/ Preexisting(Loc(path))

\* the location and every ancestor of it that is not there from the start
Ancestors(loc) ==
    {[abs |-> loc.abs, parts |-> SubSeq(loc.parts, 1, k)] : k \in 1..Len(loc.parts)}
        \ {l \in {[abs |-> loc.abs, parts |-> SubSeq(loc.parts, 1, k)] :
                      k \in 1..Len(loc.parts)} : Preexisting(l)}

-----------------------------------------------------------------------------
(* Notebook Writer *)

\* f"{stem}_{i}{suffix}"
CandidateName(path, i) == PathStem(path) \o <<"_" \o ToString(i)>> \o PathSuffix(path)

RECURSIVE FirstFree(_, _, _, _)
FirstFree(path, i, files, ds) ==
    LET candidate == WithName(path, CandidateName(path, i))
    IN  IF ~Exists(candidate, files, ds) THEN candidate
        ELSE FirstFree(path, i + 1, files, ds)

\* _make_unique_path gone wrong: the path is taken whether it exists or not
MakeUniquePathOverwrite(path, files, ds) == path

\* _make_unique_path
MakeUniquePath(path, files, ds) ==
    IF ~Exists(path, files, ds) THEN path ELSE FirstFree(path, 1, files, ds)

\* the notebook of lines 124-134
NewNotebook(text, lang) ==
    [cells |-> Split(text, Sep),
     kernelspec |-> [display_name |-> IF lang = Python THEN <<"Python 3">> ELSE lang,
                     language |-> lang,
                     name |-> IF lang = Python THEN <<"python3">> ELSE lang],
     language_info |-> lang]

\* lines 137-140 for the path out that line 136 chose, needed being the
\* directories mkdir has to find or make: Ok of [ret, fs, dirs] (the returned
\* path, the disk after it), or Raise when mkdir finds a file in its way
WriteAt(out, at, needed, nb, files, ds) ==
    IF needed \cap DOMAIN files # {} THEN Raise
    ELSE Ok([ret |-> out,
             fs |-> [l \in DOMAIN files \cup {at} |-> IF l = at THEN nb ELSE files[l]],
             dirs |-> ds \cup needed])

WriteUnique(out, nb, files, ds) ==
    WriteAt(out, Loc(out), Ancestors(Loc(Parent(out))), nb, files, ds)

\* _write_ipynb
WriteIpynb(path, text, lang, files, ds) ==
    WriteUnique(MakeUniquePath(path, files, ds), NewNotebook(text, lang), files, ds)

-----------------------------------------------------------------------------
(* Archive Walker: the body of the loop over the entries *)

OutDir == [abs |-> FALSE, parts |-> << <<"out">> >>]

\* f"{v}" of a name
Format(v) ==
    CASE v.t = "str" -> v.s
      [] v.t = "int" -> <<ToString(v.n)>>
      [] OTHER -> <<"{object}">>

\* Path(entry).stem
EntryStem(entry) == PathStem(ParsePath(entry))

\* line 171
SkipsEntry(entry) ==
    EndsWith(entry, <<"/">>) \/ EndsWith(Lower(entry), <<"manifest", ".mf">>)

\* The state of a run is w = [fs, dirs, written, raised, log]: the disk, the
\* list `written`, whether an exception is propagating, and a log of the
\* _write_ipynb calls that returned (the record, the path passed, the path
\* returned).
Logged(w, wr, nb, path) ==
    [fs |-> wr.fs, dirs |-> wr.dirs, written |-> Append(w.written, wr.ret),
     raised |-> FALSE,
     log |-> Append(w.log, [nb |-> nb, target |-> path, ret |-> wr.ret])]

\* line 195, the exception of _write_ipynb propagating
Written(w, wr, nb, path) ==
    IF Failed(wr) THEN [w EXCEPT !.raised = TRUE] ELSE Logged(w, wr.v, nb, path)

WriteRecord(nb, path, text, lang, w) ==
    Written(w, WriteIpynb(path, text, lang, w.fs, w.dirs), nb, path)

\* lines 191-195 for the triple eb that line 190 got
ConvertBlocks(nb, eb, default_name, w) ==
    IF Strip(eb.text) = <<>> THEN w
    ELSE WriteRecord(nb,
                     Div(OutDir, Format(IF Truthy(eb.name) THEN eb.name
                                        ELSE PyStr(default_name)) \o <<".ipynb">>),
                     eb.text, eb.lang, w)

Extracted(nb, eb, default_name, w) ==
    IF Failed(eb) THEN [w EXCEPT !.raised = TRUE]
    ELSE ConvertBlocks(nb, eb.v, default_name, w)

\* lines 190-195 for one record
ConvertRecord(nb, default_name, w) == Extracted(nb, ExtractBlocks(nb), default_name, w)

\* lines 189-195: the records in order, up to the first that raises
RECURSIVE ConvertRecords(_, _, _)
ConvertRecords(nbs, default_name, w) ==
    IF nbs = <<>> \/ w.raised THEN w
    ELSE ConvertRecords(Tail(nbs), default_name, ConvertRecord(Head(nbs), default_name, w))

\* lines 177-186: the text fallback; every exception is swallowed
FallbackWritten(w, wr, path) ==
    IF Failed(wr) THEN w ELSE Logged(w, wr.v, PyNone, path)

FallbackWrite(path, txt, w) ==
    FallbackWritten(w, WriteIpynb(path, txt, Python, w.fs, w.dirs), path)

FallbackText(entry, raw, w) ==
    IF Strip(raw.text) = <<>> THEN w
    ELSE FallbackWrite(Div(OutDir, EntryStem(entry) \o <<".ipynb">>), raw.text, w)

\* lines 175-195 for the value nbjson that line 174 got
ConvertDecoded(entry, raw, nbjson, w) ==
    IF nbjson = PyNone THEN FallbackText(entry, raw, w)
    ELSE ConvertRecords(IterNbObjs(nbjson), EntryStem(entry), w)

\* lines 173-195: one entry that line 171 does not skip
ConvertEntry(entry, raw, w) ==
    ConvertDecoded(entry, raw, TryParseJsonFromBytes(raw), w)

-----------------------------------------------------------------------------
(* The archives the walker is run on *)

NoResult == [kind |-> "none"]
NoInput == [name |-> <<>>]
EmptyDisk == [l \in {} |-> NewNotebook(<<>>, Python)]

\* bytes that are plain text: every decoding attempt fails
Plain(text) ==
    [text |-> text, utf8 |-> Raise, b64 |-> TRUE, b64utf8 |-> Raise, b64gz |-> Raise,
     b64zl |-> Raise, gz |-> Raise, zl |-> Raise]

\* the UTF-8 JSON text of v
JsonBytes(v, text) == [Plain(text) EXCEPT !.utf8 = v]

\* base64(gzip(JSON text of v)), gzip(JSON text of v)
B64GzBytes(v) == [Plain(<<"H4sI">>) EXCEPT !.b64gz = v]
GzBytes(v) == [Plain(<<"{gzip}">>) EXCEPT !.b64 = FALSE, !.gz = v]

Cell(src) == PyDict([source |-> PyStr(src)])
Cmd(pos, src) == PyDict([position |-> PyInt(pos), command |-> PyStr(src)])
Doc(d) == JsonBytes(PyDict(d), <<"{json}">>)

Nb1 == PyDict([name |-> PyStr(<<"n">>), cells |-> PyList(<<Cell(<<"a">>)>>)])
BadNb == PyDict([commands |-> PyList(<<PyInt(5)>>)])

WalkRaws ==
    { Plain(<<"a">>),
      Plain(<<"w">>),
      Plain(<<"a">> \o Sep \o <<"a">>),
      JsonBytes(PyNone, <<"null">>),
      JsonBytes(PyInt(5), <<"5">>),
      JsonBytes(PyStr(<<"a">>), <<"\"a\"">>),
      JsonBytes(PyBool(TRUE), <<"true">>),
      JsonBytes(PyList(<<Nb1, BadNb>>), <<"[json]">>),
      B64GzBytes(Nb1),
      GzBytes(Nb1),
      Doc([cells |-> PyList(<<Cell(<<"a">>)>>)]),
      Doc([name |-> PyStr(<<>>), cells |-> PyList(<<Cell(<<"a">>)>>)]),
      Doc([name |-> PyStr(<<"n">>), language |-> PyStr(<<"SQL">>),
           commands |-> PyList(<<Cmd(2, <<"a">>), Cmd(1, <<"a", "a">>)>>)]),
      Doc([name |-> PyStr(<<"..", "/", "n">>), cells |-> PyList(<<Cell(<<"a">>)>>)]),
      Doc([name |-> PyStr(<<"/", "n">>), cells |-> PyList(<<Cell(<<"a">>)>>)]),
      Doc([name |-> PyStr(<<"d", "/", "n">>), cells |-> PyList(<<Cell(<<"a">>)>>)]),
      Doc([commands |-> PyList(<<PyInt(5)>>)]),
      Doc([language |-> PyInt(5), cells |-> PyList(<<Cell(<<"a">>)>>)]),
      Doc([commands |-> PyList(<<PyDict([position |-> PyNone, command |-> PyStr(<<"a">>)]),
                                 Cmd(1, <<"a">>)>>)]),
      Doc([notebooks |-> PyList(<<Nb1, PyInt(5), Nb1>>)]),
      Doc([other |-> PyInt(1)]),
      Doc([name |-> PyStr(<<"n">>), cells |-> PyList(<<Cell(<<"a">> \o Sep \o <<"a">>)>>)]),
      Doc([name |-> PyStr(<<"n">>), cells |-> PyList(<<Cell(<<"w">>)>>)]) }

EntryNames ==
    { <<"d", "/">>,
      <<"manifest", ".mf">>,
      <<"d", "/", "MANIFEST", ".MF">>,
      <<"my", "manifest", ".mf">>,
      <<"nb">>,
      <<"d", "/", "nb", ".py">> }

Entries == [name : EntryNames, raw : WalkRaws]

OldNotebook == NewNotebook(<<"a", "a", "a">>, Python)

\* what the output directory holds before the run
InitialDisks ==
    { EmptyDisk,
      [l \in {Loc(Div(OutDir, <<"nb", ".ipynb">>))} |-> OldNotebook] }

-----------------------------------------------------------------------------
(* dbc_to_ipynbs *)

World == [fs |-> fs, dirs |-> dirs, written |-> written, raised |-> FALSE, log |-> <<>>]

Init ==
    /\ pc = "start"
    /\ input = NoInput
    /\ result = NoResult
    /\ fs \in InitialDisks
    /\ dirs = IF fs = EmptyDisk THEN {} ELSE Ancestors(Loc(OutDir))
    /\ written = <<>>
    /\ hist = [fs |-> fs, dirs |-> dirs, written |-> written]
    /\ count = 0

\* the loop body ended in w, with or without an exception
Ends(w, raised, kind) ==
    /\ w.raised = raised
    /\ fs' = w.fs
    /\ dirs' = w.dirs
    /\ written' = w.written
    /\ result' = [kind |-> kind, log |-> w.log]

\* lines 158-165 with a path that is no zip file: ValueError
RejectArchive ==
    /\ pc = "start"
    /\ pc' = "invalid"
    /\ dirs' = dirs \cup Ancestors(Loc(OutDir))
    /\ result' = [kind |-> "ValueError"]
    /\ hist' = [fs |-> fs, dirs |-> dirs, written |-> written]
    /\ UNCHANGED <<input, fs, written, count>>

\* lines 158-169 with a zip file
OpenArchive ==
    /\ pc = "start"
    /\ pc' = "walk"
    /\ dirs' = dirs \cup Ancestors(Loc(OutDir))
    /\ result' = [kind |-> "open"]
    /\ hist' = [fs |-> fs, dirs |-> dirs, written |-> written]
    /\ UNCHANGED <<input, fs, written, count>>

\* lines 170-172: the entry is passed over unread
SkipEntry(e) ==
    /\ pc = "walk" /\ count < MaxEntries
    /\ SkipsEntry(e.name)
    /\ input' = e
    /\ result' = [kind |-> "skip", log |-> <<>>]
    /\ hist' = [fs |-> fs, dirs |-> dirs, written |-> written]
    /\ count' = count + 1
    /\ UNCHANGED <<pc, fs, dirs, written>>

\* lines 173-195: the entry is read and converted
ReadEntry(e) ==
    /\ pc = "walk" /\ count < MaxEntries
    /\ ~SkipsEntry(e.name)
    /\ Ends(ConvertEntry(e.name, e.raw, World), FALSE, "read")
    /\ input' = e
    /\ hist' = [fs |-> fs, dirs |-> dirs, written |-> written]
    /\ count' = count + 1
    /\ UNCHANGED pc

\* lines 173-195: an exception leaves the loop and the function
EntryRaises(e) ==
    /\ pc = "walk" /\ count < MaxEntries
    /\ ~SkipsEntry(e.name)
    /\ Ends(ConvertEntry(e.name, e.raw, World), TRUE, "exception")
    /\ input' = e
    /\ pc' = "raised"
    /\ hist' = [fs |-> fs, dirs |-> dirs, written |-> written]
    /\ count' = count + 1

\* line 197, once the entries are exhausted
ReturnWritten ==
    /\ pc = "walk"
    /\ pc' = "returned"
    /\ result' = [kind |-> "return", paths |-> written]
    /\ hist' = [fs |-> fs, dirs |-> dirs, written |-> written]
    /\ UNCHANGED <<input, fs, dirs, written, count>>

Next ==
    \/ RejectArchive
    \/ OpenArchive
    \/ \E e \in Entries : SkipEntry(e)
    \/ \E e \in Entries : ReadEntry(e)
    \/ \E e \in Entries : EntryRaises(e)
    \/ ReturnWritten

Spec == Init /\ [][Next]_vars

-----------------------------------------------------------------------------
(* Properties of a run of dbc_to_ipynbs, under Spec *)

\* the entry `input` went through lines 173-195 in the last step
EntryWasRead == pc \in {"walk", "raised"} /\ result.kind \in {"read", "exception"}

\* <out_dir>/<entry stem>.ipynb
StemTarget(entry) == Div(OutDir, EntryStem(entry) \o <<".ipynb">>)

\* the last path component of an entry name
BaseName(entry) == PathName(ParsePath(entry))

\* a location inside the output directory (or the output directory itself)
Inside(loc) == ~loc.abs /\ loc.parts # <<>> /\ loc.parts[1] = <<"out">>

\* C1: a failure raised while one entry is decoded, extracted, assembled or
\* written never propagates to the caller of dbc_to_ipynbs; the caller sees
\* the invalid-archive error or a normal return.
C1_EntryFailureNeverPropagates == pc # "raised"

\* C4: a record whose `name` is absent or falsy is written to
\* <out_dir>/<entry stem>.ipynb.
C4_FalsyNameUsesEntryStem ==
    EntryWasRead =>
        \A i \in DOMAIN result.log :
            (result.log[i].nb.t = "dict" /\ ~Truthy(Get(result.log[i].nb, "name", PyNone)))
                => result.log[i].target = StemTarget(input.name)

\* C5: an entry with no JSON payload and text that is not blank is written as
\* a notebook of exactly one cell holding the whole text, language python, at
\* <out_dir>/<entry stem>.ipynb, and the written path is appended to the result.
C5_FallbackWritesOneCell ==
    (EntryWasRead /\ TryParseJsonFromBytes(input.raw) = PyNone
                  /\ Strip(input.raw.text) # <<>>)
        => /\ Len(result.log) = 1
           /\ result.log[1].target = StemTarget(input.name)
           /\ written = Append(hist.written, result.log[1].ret)
           /\ fs[Loc(result.log[1].ret)].cells = <<input.raw.text>>
           /\ fs[Loc(result.log[1].ret)].language_info = Python

\* C6: an entry whose bytes parse directly as a JSON scalar (string, number,
\* boolean, null) yields no record: no file is written and no path recorded.
C6_ScalarWritesNothing ==
    (EntryWasRead /\ input.raw.utf8.t \in {"str", "int", "bool", "none"})
        => /\ result.log = <<>>
           /\ fs = hist.fs
           /\ written = hist.written

\* C8: an entry is passed over unread exactly when its name ends with "/" or
\* its lowercased base name equals manifest.mf.
C8_SkipsExactlyDirsAndManifest ==
    (pc \in {"walk", "raised"} /\ result.kind \in {"skip", "read", "exception"})
        => (result.kind = "skip"
                <=> (\/ EndsWith(input.name, <<"/">>)
                     \/ Lower(BaseName(input.name)) = <<"manifest", ".mf">>))

\* C10: every returned path, every file and every directory of the run lies
\* inside the output directory.
C10_OutputStaysInsideOutDir ==
    /\ \A i \in DOMAIN written : Inside(Loc(written[i]))
    /\ \A l \in DOMAIN fs : Inside(l)
    /\ \A d \in dirs : Inside(d)

-----------------------------------------------------------------------------
(* The Byte Decoder alone: SpecDecode draws the bytes and decodes them *)

\* what one decoding attempt makes of the bytes
Outcomes == {Raise, PyNone, PyInt(1), Nb1}

DecodeInputs ==
    [text : {<<"a">>}, utf8 : Outcomes, b64 : BOOLEAN, b64utf8 : Outcomes,
     b64gz : Outcomes, b64zl : Outcomes, gz : Outcomes, zl : Outcomes]

InitDecode ==
    /\ pc = "bytes"
    /\ input \in DecodeInputs
    /\ result = NoResult
    /\ fs = EmptyDisk
    /\ dirs = {}
    /\ written = <<>>
    /\ hist = [fs |-> fs, dirs |-> dirs, written |-> written]
    /\ count = 0

\* line 174
DecodeBytes ==
    /\ pc = "bytes"
    /\ pc' = "decoded"
    /\ result' = TryParseJsonFromBytes(input)
    /\ count' = count + 1
    /\ UNCHANGED <<input, fs, dirs, written, hist>>

NextDecode == DecodeBytes

SpecDecode == InitDecode /\ [][NextDecode]_vars

\* the six attempts in the order of the claim
Attempts(b) ==
    << b.utf8,
       IF b.b64 THEN b.b64utf8 ELSE Raise,
       IF b.b64 THEN b.b64gz ELSE Raise,
       IF b.b64 THEN b.b64zl ELSE Raise,
       b.gz,
       b.zl >>

AllFail(at) == \A i \in DOMAIN at : Failed(at[i])

FirstSuccess(at) ==
    at[CHOOSE i \in DOMAIN at : ~Failed(at[i]) /\ \A j \in 1..(i - 1) : Failed(at[j])]

\* C3: the decoder returns the result of the first attempt that succeeds, and
\* returns no payload (None) exactly when all six attempts fail.
C3_NoPayloadIffAllFail ==
    pc = "decoded" =>
        /\ (result = PyNone <=> AllFail(Attempts(input)))
        /\ (~AllFail(Attempts(input)) => result = FirstSuccess(Attempts(input)))

-----------------------------------------------------------------------------
(* The Notebook Writer alone: SpecWrite makes a sequence of _write_ipynb calls *)

InOut(name) == Div(OutDir, name)

\* the paths that are written to
WriteTargets ==
    { InOut(<<"n", ".ipynb">>),
      InOut(<<"n", "_1", ".ipynb">>),
      InOut(<<"d", "/", "n", ".ipynb">>),
      InOut(<<"n">>),
      InOut(<<"n", ".ipynb", "/", "m", ".ipynb">>) }

WriteTexts == { <<"a">>, <<"a">> \o Sep \o <<"a">> }

\* the files that may be there before the first call
PreFiles ==
    { Loc(InOut(<<"n", ".ipynb">>)),
      Loc(InOut(<<"n", "_1", ".ipynb">>)),
      Loc(InOut(<<"n", "_2", ".ipynb">>)) }

InitWrite ==
    /\ pc = "calls"
    /\ input = NoInput
    /\ result = NoResult
    /\ fs \in {[l \in S |-> OldNotebook] : S \in SUBSET PreFiles}
    /\ dirs = Ancestors(Loc(OutDir))
    /\ written = <<>>
    /\ hist = [fs |-> fs, dirs |-> dirs, written |-> written]
    /\ count = 0

\* a call of _write_ipynb that returns
WriteReturns(target, text) ==
    /\ pc = "calls" /\ count < MaxWrites
    /\ Ends(WriteRecord(PyNone, target, text, Python, World), FALSE, "returned")
    /\ input' = [target |-> target, text |-> text]
    /\ hist' = [fs |-> fs, dirs |-> dirs, written |-> written]
    /\ count' = count + 1
    /\ UNCHANGED pc

\* a call of _write_ipynb that raises: mkdir found a file in its way
WriteRaises(target, text) ==
    /\ pc = "calls" /\ count < MaxWrites
    /\ Ends(WriteRecord(PyNone, target, text, Python, World), TRUE, "exception")
    /\ input' = [target |-> target, text |-> text]
    /\ hist' = [fs |-> fs, dirs |-> dirs, written |-> written]
    /\ count' = count + 1
    /\ UNCHANGED pc

NextWrite ==
    \/ \E target \in WriteTargets, text \in WriteTexts : WriteReturns(target, text)
    \/ \E target \in WriteTargets, text \in WriteTexts : WriteRaises(target, text)

SpecWrite == InitWrite /\ [][NextWrite]_vars

\* path existed on the disk as it was before the last call
ExistedBefore(path) == Exists(path, hist.fs, hist.dirs)

\* the target with _i inserted before the extension
Suffixed(target, i) ==
    WithName(target, PathStem(target) \o <<"_" \o ToString(i)>> \o PathSuffix(target))

-----------------------------------------------------------------------------
(* The Block Assembler and the writer's cells: SpecAssemble draws one record, *)
(* assembles it (line 190) and writes it (lines 191-195)                      *)

SeqsUpTo(S, n) == UNION {[1..k -> S] : k \in 0..n}

\* the source strings: an ordinary character and blanks
SrcStrings == SeqsUpTo({"a", "w"}, MaxStrLen)

\* sources given as lists of strings; the last two hold separator text
SrcLists ==
    { <<>>,
      <<PyStr(<<"w">>), PyStr(<<"a">>)>>,
      <<PyStr(<<"a">>), PyStr(<<"w">>), PyStr(<<"h">>)>>,
      <<PyStr(<<"a">>), PyStr(Sep), PyStr(<<"a">>)>> }

SourceVals == {PyInt(7)} \cup {PyStr(x) : x \in SrcStrings} \cup {PyList(l) : l \in SrcLists}

Positions == {PyInt(-1), PyInt(1)}

\* the elements of a `commands` list: mappings, and one value that is none
CommandElems ==
    {PyInt(5), PyDict(<<>>)}
        \cup {PyDict(d) : d \in [command : SourceVals]}
        \cup {PyDict(d) : d \in [position : Positions]}
        \cup {PyDict(d) : d \in [position : Positions, command : SourceVals]}

CellElems ==
    {PyDict(d) : d \in [source : SourceVals]}
        \cup {PyDict(d) : d \in [command : SourceVals, source : {PyStr(<<"a">>)}]}

\* the records: `commands` alone, `commands` beside `cells`, `cells` alone
InitAssemble ==
    /\ pc = "record"
    /\ \E k \in 0..MaxCmds :
           \/ \E c \in [1..k -> CommandElems] : input = PyDict([commands |-> PyList(c)])
           \/ \E c \in [1..k -> CommandElems] :
                  input = PyDict([commands |-> PyList(c),
                                  cells |-> PyList(<<Cell(<<"a">>)>>)])
           \/ \E c \in [1..k -> CellElems] : input = PyDict([cells |-> PyList(c)])
    /\ result = NoResult
    /\ fs = EmptyDisk
    /\ dirs = Ancestors(Loc(OutDir))
    /\ written = <<>>
    /\ hist = [fs |-> fs, dirs |-> dirs, written |-> written]
    /\ count = 0

Assembled(eb) ==
    /\ pc' = IF Failed(eb) THEN "raised" ELSE "assembled"
    /\ result' = [kind |-> "assembled", eb |-> eb]

\* line 190
AssembleRecord ==
    /\ pc = "record"
    /\ Assembled(ExtractBlocks(input))
    /\ count' = count + 1
    /\ UNCHANGED <<input, fs, dirs, written, hist>>

WroteAssembled(w, eb) ==
    /\ fs' = w.fs
    /\ dirs' = w.dirs
    /\ written' = w.written
    /\ result' = [kind |-> "written", eb |-> eb, log |-> w.log]

\* lines 191-195
WriteAssembled ==
    /\ pc = "assembled"
    /\ pc' = "written"
    /\ WroteAssembled(ConvertBlocks(input, result.eb.v, <<"nb">>, World), result.eb)
    /\ hist' = [fs |-> fs, dirs |-> dirs, written |-> written]
    /\ UNCHANGED <<input, count>>

NextAssemble == AssembleRecord \/ WriteAssembled

SpecAssemble == InitAssemble /\ [][NextAssemble]_vars

(* What the claims expect of a record, stated without the code's loops *)

HasKey(nb, k) == k \in DOMAIN nb.d

\* every element of the list under key k is a mapping
AllMappings(nb, k) == \A i \in DOMAIN nb.d[k].xs : nb.d[k].xs[i].t = "dict"

ExpKey(c) == IF "position" \in DOMAIN c.d THEN c.d["position"].n ELSE 0

\* the order of the claim: position ascending, equal positions in list order
ExpOrder(cs) ==
    CHOOSE p \in [DOMAIN cs -> DOMAIN cs] :
        \A i, j \in DOMAIN cs :
            i < j => \/ ExpKey(cs[p[i]]) < ExpKey(cs[p[j]])
                     \/ ExpKey(cs[p[i]]) = ExpKey(cs[p[j]]) /\ p[i] < p[j]

RECURSIVE ExpFlatten(_)
ExpFlatten(xs) == IF xs = <<>> THEN <<>> ELSE Head(xs).s \o ExpFlatten(Tail(xs))

\* the text of a source value: a string, or a sequence of strings joined
ExpText(v) ==
    IF v.t = "str" THEN v.s ELSE IF v.t = "list" THEN ExpFlatten(v.xs) ELSE <<>>

\* s without the blanks around it
ExpStrip(s) ==
    LET inked == {i \in DOMAIN s : s[i] # "w"}
    IN  IF inked = {} THEN <<>>
        ELSE SubSeq(s, CHOOSE i \in inked : \A j \in inked : i <= j,
                       CHOOSE i \in inked : \A j \in inked : j <= i)

ExpCommandSource(c) == IF "command" \in DOMAIN c.d THEN c.d["command"] ELSE PyStr(<<>>)

ExpCellSource(c) ==
    IF "command" \in DOMAIN c.d THEN c.d["command"]
    ELSE IF "source" \in DOMAIN c.d THEN c.d["source"] ELSE PyStr(<<>>)

ExpNonEmpty(x) == x # <<>>

\* the stripped, non-empty sources of a record in assembly order
ExpCommandParts(cs) ==
    SelectSeq([k \in DOMAIN cs |-> ExpStrip(ExpText(ExpCommandSource(cs[ExpOrder(cs)[k]])))],
              ExpNonEmpty)

ExpCellParts(cs) ==
    SelectSeq([k \in DOMAIN cs |-> ExpStrip(ExpText(ExpCellSource(cs[k])))], ExpNonEmpty)

ExpParts(nb) ==
    IF HasKey(nb, "commands") THEN ExpCommandParts(nb.d["commands"].xs)
    ELSE ExpCellParts(nb.d["cells"].xs)

RECURSIVE ExpJoin(_)
ExpJoin(ps) ==
    IF ps = <<>> THEN <<>>
    ELSE IF Len(ps) = 1 THEN ps[1]
    ELSE ExpJoin(SubSeq(ps, 1, Len(ps) - 1)) \o <<"w", "h", "w">> \o ps[Len(ps)]

\* C7: a record with a `commands` key, with or without a `cells` key, whose
\* commands are mappings is assembled from `commands` only: ordered by position
\* ascending (missing position 0), ties in list order, each command joined if
\* it is a sequence of strings and stripped, empty ones dropped, the rest
\* joined with the separator.
C7_CommandsTextByPosition ==
    /\ (pc \in {"assembled", "written"} /\ HasKey(input, "commands"))
           => result.eb.v.text = ExpJoin(ExpCommandParts(input.d["commands"].xs))
    /\ (pc = "raised" /\ HasKey(input, "commands")) => ~AllMappings(input, "commands")

\* a record with `commands` and `cells` whose first command has position 1 and
\* whose second has none: the second command comes first in the text
C7_Witness ==
    /\ pc = "assembled"
    /\ HasKey(input, "commands") /\ HasKey(input, "cells")
    /\ input.d["commands"].xs =
           << PyDict([position |-> PyInt(1), command |-> PyStr(<<"a">>)]),
              PyDict([command |-> PyList(<<PyStr(<<"w">>), PyStr(<<"a">>)>>)]) >>
    /\ result.eb.v.text = <<"a", "w", "h", "w", "a">>

\* C9: the notebook written for a record with at least one non-empty source
\* has exactly one cell per such source, in assembly order, each cell's source
\* the stripped source text, and no cell is empty.
C9_OneCellPerSource ==
    (pc = "written" /\ ExpParts(input) # <<>>)
        => /\ Len(result.log) = 1
           /\ fs[Loc(result.log[1].ret)].cells = ExpParts(input)
           /\ \A i \in DOMAIN fs[Loc(result.log[1].ret)].cells :
                  fs[Loc(result.log[1].ret)].cells[i] # <<>>

====
